---- MODULE Spec2Model ----
(***************************************************************************)
(* A model of grapple-hook/src/devices/Device.tsx:                         *)
(*   - DeviceComponent / getFactory / renderDeviceType  (dispatch),        *)
(*   - GrappleDeviceHeaderComponent                     (config gateway),  *)
(*   - FirmwareUpdateComponent                          (upgrade session). *)
(* Three specifications share the variables: SpecDispatch, SpecGateway and *)
(* SpecUpgrade, one per component; the variables of the other components   *)
(* stay at their initial values.                                           *)
(*                                                                         *)
(* Conventions.  A JavaScript string is a sequence of one-character        *)
(* strings.  An optional value (null / undefined / NaN, or a value) is a   *)
(* sequence of length at most one: <<>> is the absent value, <<v>> is v.   *)
(***************************************************************************)
EXTENDS Integers, Sequences, FiniteSets, TLC

VARIABLES
  \* ---- DeviceComponent
  props,          \* the props of the last render: [info, device_class]
  rendered,       \* what the last render produced
  \* ---- GrappleDeviceHeaderComponent
  info,           \* the local device descriptor the header was given
  start_dfu,      \* TRUE when the start_dfu prop was supplied
  rangeEnforced,  \* whether the dialog refuses values outside min..max
  pending,        \* the async handlers suspended at their await
  toasts,         \* the errors handed to addError, in order
  startDfuCalls,  \* how many times start_dfu() was called
  clicks,         \* operator clicks so far (bounded)
  answers,        \* what the operator answered so far (history)
  \* ---- FirmwareUpdateComponent
  session,        \* "none", "live" (mounted) or "torn" (unmounted)
  progress,       \* useState<number | null>
  firmwareURL,    \* useState<string | null>
  interval,       \* "none", "active" or "cleared"
  timerTask,      \* TRUE when a timer task of the interval is queued
  elapsed,        \* how often the interval elapsed so far (bounded)
  readers,        \* the FileReaders still reading
  selections,     \* operator file selections so far (bounded)
  failStreak,     \* consecutive failed "progress" polls (history)
  lastPoll,       \* the last settled poll, its outcome and predecessor (history)
  \* ---- rpc
  inflight,       \* invocations issued and not yet settled
  issued,         \* per operation, how many invocations were issued (history)
  failed,         \* per header operation, how many invocations failed (history)
  lastCall        \* the last invocation issued (history)

dispatchVars == <<props, rendered>>
gatewayVars  == <<info, start_dfu, rangeEnforced, pending, toasts, startDfuCalls,
                  clicks, answers>>
upgradeVars  == <<session, progress, firmwareURL, interval, timerTask, elapsed,
                  readers, selections, failStreak, lastPoll>>
rpcVars      == <<inflight, issued, failed, lastCall>>
vars == <<dispatchVars, gatewayVars, upgradeVars, rpcVars>>

----------------------------------------------------------------------------
(* Bounds of the model. *)
MaxClicks     == 2   \* operator clicks on the header's buttons
MaxOver       == 2   \* how far a candidate name may exceed the name limit
MaxTicks      == 3   \* how often the poll interval elapses
MaxSelections == 1   \* operator file selections

Null    == <<>>
Some(v) == <<v>>

RECURSIVE Repeat(_, _)
Repeat(c, n) == IF n = 0 THEN <<>> ELSE <<c>> \o Repeat(c, n - 1)

----------------------------------------------------------------------------
(* rpc(invoke, op, args): one invocation, settled later with a result or a *)
(* failure.  "then" and "catch" name the handlers the caller chained.      *)

Ops == {"blink", "set_id", "set_name", "commit_to_eeprom",
        "progress", "get_firmware_url", "do_field_upgrade"}

\* The operations GrappleDeviceHeaderComponent invokes.
HeaderOps == {"blink", "set_id", "set_name", "commit_to_eeprom"}

NoArgs == [id |-> Null, name |-> Null, data |-> Null]

NoCall == [seq |-> 0, op |-> "none", args |-> NoArgs, then |-> "none",
           catch |-> "none", input |-> Null]

\* The invocation record of rpc(invoke, op, args).then(then).catch(catch):
\* seq numbers the invocations of one operation in the order of issue, and
\* input is the raw operator input it was built from (history).
rpc(op, args, then, catch, input) ==
  [seq |-> issued[op] + 1, op |-> op, args |-> args, then |-> then, catch |-> catch,
   input |-> input]

Issue(c) ==
  /\ inflight' = inflight \cup {c}
  /\ issued' = [issued EXCEPT ![c.op] = @ + 1]
  /\ lastCall' = c
  /\ UNCHANGED failed

\* The rejection value of a failed invocation of c.
Failure(c) == <<"rpc failed", c.op>>

----------------------------------------------------------------------------
(* GrappleDeviceHeaderComponent: changeId, changeName, startFieldUpgrade    *)
(* and the Blink / Commit Configuration buttons.                           *)

NameLimit      == 16   \* if (newName.length > 16)
IdSpaceCeiling == 63   \* 0x3F
IdInputMin     == 0    \* min={0}
IdInputMax     == IdSpaceCeiling - 1   \* max={0x3F - 1}

ScenarioName ==
  <<"T","h","i","s","N","a","m","e","I","s","W","a","y","T","o","o",
    "L","o","n","g","T","o","F","i","t">>

\* The candidate names the operator may confirm.
NameInputs ==
  { Repeat("a", n) : n \in {0, 1, NameLimit - 1}
                           \cup (NameLimit .. NameLimit + MaxOver) }
    \cup {ScenarioName}

\* The candidate strings the operator may confirm in the id dialog.
IdInputs ==
  { <<>>, <<"0">>, <<"5">>, <<"6","1">>, <<"6","2">>, <<"6","3">>,
    <<"-","1">>, <<"1","a">> }

DigitChars == <<"0","1","2","3","4","5","6","7","8","9">>
IsDigit(c) == \E d \in 1..10 : DigitChars[d] = c
DigitVal(c) == (CHOOSE d \in 1..10 : DigitChars[d] = c) - 1
AllDigits(s) == s # <<>> /\ \A i \in 1..Len(s) : IsDigit(s[i])

RECURSIVE Decimal(_)
Decimal(s) ==
  IF s = <<>> THEN 0
  ELSE Decimal(SubSeq(s, 1, Len(s) - 1)) * 10 + DigitVal(s[Len(s)])

\* JavaScript's Number(string) on the strings of IdInputs: the empty string
\* is 0, an optionally signed run of decimal digits is its value, and any
\* other string is NaN (the absent value).
Number(s) ==
  IF s = <<>> THEN Some(0)
  ELSE IF AllDigits(s) THEN Some(Decimal(s))
  ELSE IF s[1] = "-" /\ AllDigits(Tail(s)) THEN Some(0 - Decimal(Tail(s)))
  ELSE IF s[1] = "+" /\ AllDigits(Tail(s)) THEN Some(Decimal(Tail(s)))
  ELSE Null

\* v || 0 for a number v: NaN and 0 are falsy.
OrZero(v) == IF v = Null \/ v = Some(0) THEN 0 ELSE v[1]

\* The id changeId sends for the confirmed string s: Number(s) || 0.
NewId(s) == OrZero(Number(s))

\* <FormControl type="number" min={0} max={0x3F - 1} step={1}>: the values
\* within the constraint of the input control.
InInputRange(s) ==
  \/ s = <<>>
  \/ /\ Number(s) # Null
     /\ IdInputMin <= Number(s)[1]
     /\ Number(s)[1] <= IdInputMax

\* confirmModal resolves with the string the operator confirmed.  Whether
\* the dialog refuses a value outside the control's constraint is decided
\* outside this file: both behaviours are modelled (rangeEnforced).
ConfirmAllows(s) == rangeEnforced => InInputRange(s)

\* A comparison that is off by one.
NameTooLong_OffByOne(newName) == Len(newName) > NameLimit + 1

\* if (newName.length > 16)
NameTooLong(newName) == Len(newName) > NameLimit

TooLongToast == <<"Name is too long!">>

rpcIdle == /\ inflight = {}
           /\ issued = [o \in Ops |-> 0]
           /\ failed = [o \in HeaderOps |-> 0]
           /\ lastCall = NoCall

dispatchIdle ==
  /\ props = [info |-> [is_dfu |-> FALSE], device_class |-> ""]
  /\ rendered = Null

upgradeIdle ==
  /\ session = "none"
  /\ progress = Null
  /\ firmwareURL = Null
  /\ interval = "none"
  /\ timerTask = FALSE
  /\ elapsed = 0
  /\ readers = {}
  /\ selections = 0
  /\ failStreak = 0
  /\ lastPoll = Null

gatewayIdle ==
  /\ info = [device_id |-> 0, name |-> <<>>]
  /\ start_dfu = FALSE
  /\ rangeEnforced = FALSE
  /\ pending = {}
  /\ toasts = <<>>
  /\ startDfuCalls = 0
  /\ clicks = 0
  /\ answers = [nameLong |-> 0, nameOk |-> 0, idMalformed |-> 0, idOk |-> 0,
                dfuYes |-> 0, dfuNo |-> 0]

InitGateway ==
  /\ info = [device_id |-> 5, name |-> <<"a">>]
  /\ start_dfu \in BOOLEAN
  /\ rangeEnforced \in BOOLEAN
  /\ pending = {}
  /\ toasts = <<>>
  /\ startDfuCalls = 0
  /\ clicks = 0
  /\ answers = [nameLong |-> 0, nameOk |-> 0, idMalformed |-> 0, idOk |-> 0,
                dfuYes |-> 0, dfuNo |-> 0]
  /\ rpcIdle
  /\ dispatchIdle
  /\ upgradeIdle

Click == /\ clicks < MaxClicks
         /\ clicks' = clicks + 1

\* onClick={() => rpc(invoke, "blink", {})}
ClickBlink ==
  /\ Click
  /\ Issue(rpc("blink", NoArgs, "none", "none", Null))
  /\ UNCHANGED <<info, start_dfu, rangeEnforced, pending, toasts,
                 startDfuCalls, answers>>
  /\ UNCHANGED <<dispatchVars, upgradeVars>>

\* onClick={() => rpc(invoke, "commit_to_eeprom", {})}
ClickCommit ==
  /\ Click
  /\ Issue(rpc("commit_to_eeprom", NoArgs, "none", "none", Null))
  /\ UNCHANGED <<info, start_dfu, rangeEnforced, pending, toasts,
                 startDfuCalls, answers>>
  /\ UNCHANGED <<dispatchVars, upgradeVars>>

\* A button whose async handler suspends at its await of the dialog.
OpenDialog(handler) ==
  /\ Click
  /\ handler \notin pending
  /\ pending' = pending \cup {handler}
  /\ UNCHANGED <<info, start_dfu, rangeEnforced, toasts, startDfuCalls, answers>>
  /\ UNCHANGED <<dispatchVars, upgradeVars, rpcVars>>

\* The operator dismisses the dialog: the handler does not continue.
DismissDialog(handler) ==
  /\ handler \in pending
  /\ handler # "startFieldUpgrade"
  /\ pending' = pending \ {handler}
  /\ UNCHANGED <<info, start_dfu, rangeEnforced, toasts, startDfuCalls,
                 clicks, answers>>
  /\ UNCHANGED <<dispatchVars, upgradeVars, rpcVars>>

ClickChangeId   == OpenDialog("changeId")
ClickChangeName == OpenDialog("changeName")
ClickFirmwareUpgrade == start_dfu /\ OpenDialog("startFieldUpgrade")

\* A changeId that chains no handler, like the Blink button.
ChangeIdCatch_None == "none"

\* The handler "catch" changeId chains to its invocation.
ChangeIdCatch == "addError"

\* changeId after its await: the operator confirmed the string s.
changeId(s) ==
  /\ "changeId" \in pending
  /\ ConfirmAllows(s)
  /\ pending' = pending \ {"changeId"}
  /\ Issue(rpc("set_id", [NoArgs EXCEPT !.id = Some(NewId(s))],
               "none", ChangeIdCatch, Some(s)))
  /\ answers' = IF s = <<>> \/ Number(s) = Null
                THEN [answers EXCEPT !.idMalformed = @ + 1]
                ELSE [answers EXCEPT !.idOk = @ + 1]
  /\ UNCHANGED <<info, start_dfu, rangeEnforced, toasts, startDfuCalls, clicks>>
  /\ UNCHANGED <<dispatchVars, upgradeVars>>

\* changeName after its await: the operator confirmed the string newName.
changeName(newName) ==
  /\ "changeName" \in pending
  /\ pending' = pending \ {"changeName"}
  /\ IF NameTooLong(newName)
     THEN /\ toasts' = Append(toasts, TooLongToast)
          /\ UNCHANGED rpcVars
     ELSE /\ Issue(rpc("set_name", [NoArgs EXCEPT !.name = Some(newName)],
                       "none", "addError", Some(newName)))
          /\ UNCHANGED toasts
  /\ answers' = IF Len(newName) > 16
                THEN [answers EXCEPT !.nameLong = @ + 1]
                ELSE [answers EXCEPT !.nameOk = @ + 1]
  /\ UNCHANGED <<info, start_dfu, rangeEnforced, startDfuCalls, clicks>>
  /\ UNCHANGED <<dispatchVars, upgradeVars>>

\* The action is started whatever the answer was.
CallsStartDfu_Always(do_upgrade) == TRUE

\* if (do_upgrade) start_dfu!()
CallsStartDfu(do_upgrade) == do_upgrade

\* startFieldUpgrade after its await: confirmBool resolved do_upgrade.
startFieldUpgrade(do_upgrade) ==
  /\ "startFieldUpgrade" \in pending
  /\ pending' = pending \ {"startFieldUpgrade"}
  /\ startDfuCalls' = IF CallsStartDfu(do_upgrade)
                      THEN startDfuCalls + 1 ELSE startDfuCalls
  /\ answers' = IF do_upgrade THEN [answers EXCEPT !.dfuYes = @ + 1]
                              ELSE [answers EXCEPT !.dfuNo = @ + 1]
  /\ UNCHANGED <<info, start_dfu, rangeEnforced, toasts, clicks>>
  /\ UNCHANGED <<dispatchVars, upgradeVars, rpcVars>>

----------------------------------------------------------------------------
(* The settling of an invocation: the device answers or the call fails.    *)

ProgressResults == {Some(0), Some(45), Some(100)}
UrlResults      == {Null, Some("https://example.invalid/firmware")}

Results(op) ==
  IF op = "progress" THEN ProgressResults
  ELSE IF op = "get_firmware_url" THEN UrlResults
  ELSE {Null}

\* A setter that never lets the stored progress go down.
setProgress_KeepsLarger(v, old) ==
  IF old # Null /\ old[1] > v[1] THEN old ELSE v

\* A setter that keeps a stored 100.
setProgress_Terminal(v, old) == IF old = Some(100) THEN old ELSE v

\* .then(setProgress): the state the setter stores for the result v when
\* the stored value is old.
setProgress(v, old) == v

\* .then(setFirmwareURL)
setFirmwareURL(v, old) == v

\* The poll that resolved just before this one, when the last settled poll
\* resolved: its issue number and its result (history).
PrevResult ==
  IF lastPoll # Null /\ lastPoll[1].ok
  THEN Some([seq |-> lastPoll[1].seq, value |-> lastPoll[1].value])
  ELSE Null

\* The invocation c resolves with the result v: its "then" handler runs.
RpcResolve(c, v) ==
  /\ c \in inflight
  /\ v \in Results(c.op)
  /\ inflight' = inflight \ {c}
  /\ progress' = IF c.then = "setProgress" THEN setProgress(v, progress)
                 ELSE progress
  /\ firmwareURL' = IF c.then = "setFirmwareURL"
                    THEN setFirmwareURL(v, firmwareURL) ELSE firmwareURL
  /\ failStreak' = IF c.op = "progress" THEN 0 ELSE failStreak
  /\ lastPoll' = IF c.op = "progress"
                 THEN Some([seq |-> c.seq, ok |-> TRUE, value |-> v,
                            prev |-> PrevResult])
                 ELSE lastPoll
  /\ UNCHANGED <<issued, failed, lastCall>>
  /\ UNCHANGED <<session, interval, timerTask, elapsed, readers, selections>>
  /\ UNCHANGED <<dispatchVars, gatewayVars>>

\* The invocation c fails: its "catch" handler runs, if it has one.
RpcReject(c) ==
  /\ c \in inflight
  /\ inflight' = inflight \ {c}
  /\ toasts' = IF c.catch = "addError" THEN Append(toasts, Failure(c))
               ELSE toasts
  /\ failStreak' = IF c.op = "progress" THEN failStreak + 1 ELSE failStreak
  /\ lastPoll' = IF c.op = "progress"
                 THEN Some([seq |-> c.seq, ok |-> FALSE, value |-> Null,
                            prev |-> Null])
                 ELSE lastPoll
  /\ failed' = IF c.op \in HeaderOps THEN [failed EXCEPT ![c.op] = @ + 1]
               ELSE failed
  /\ UNCHANGED <<issued, lastCall>>
  /\ UNCHANGED <<session, progress, firmwareURL, interval, timerTask, elapsed,
                 readers, selections>>
  /\ UNCHANGED <<dispatchVars, info, start_dfu, rangeEnforced, pending,
                 startDfuCalls, clicks, answers>>

NextGateway ==
  \/ ClickBlink
  \/ ClickCommit
  \/ ClickChangeId
  \/ ClickChangeName
  \/ ClickFirmwareUpgrade
  \/ \E h \in {"changeId", "changeName"} : DismissDialog(h)
  \/ \E s \in IdInputs : changeId(s)
  \/ \E s \in NameInputs : changeName(s)
  \/ \E b \in BOOLEAN : startFieldUpgrade(b)
  \/ \E c \in inflight : \E v \in Results(c.op) : RpcResolve(c, v)
  \/ \E c \in inflight : RpcReject(c)

SpecGateway == InitGateway /\ [][NextGateway]_vars

----------------------------------------------------------------------------
(* FirmwareUpdateComponent.                                                 *)

Files == { <<>>, <<1, 255>> }

\* A test for "a number is stored" in place of truthiness.
TruthyNumber_NotNull(v) == v # Null

\* JavaScript truthiness of a number | null and of a string | null.
TruthyNumber(v) == v # Null /\ v # Some(0)
TruthyString(v) == v # Null /\ v # Some("")

\* A display that shows the indicator as soon as any number is stored.
Display_NullCheck ==
  IF progress # Null
  THEN [bar |-> TRUE, now |-> progress, link |-> FALSE, upload |-> FALSE]
  ELSE [bar |-> FALSE, now |-> Null, link |-> TruthyString(firmwareURL),
        upload |-> TRUE]

\* The branch the component renders: progress ? <ProgressBar> : <upload>.
Display ==
  IF TruthyNumber(progress)
  THEN [bar |-> TRUE, now |-> progress, link |-> FALSE, upload |-> FALSE]
  ELSE [bar |-> FALSE, now |-> Null, link |-> TruthyString(firmwareURL),
        upload |-> TRUE]

\* A poll whose failure is reported like the other invocations' failures.
PollCatch_Reports == "addError"

\* The handler the poll chains with .catch: e => {}.
PollCatch == "discard"

InitUpgrade ==
  /\ upgradeIdle
  /\ gatewayIdle
  /\ rpcIdle
  /\ dispatchIdle

\* An advisory-URL fetch whose failure is reported to the operator.
UrlCatch_Reports == "addError"

\* The handler the advisory-URL fetch chains with .catch: e => {}.
UrlCatch == "discard"

\* The component mounts: useEffect(() => {...}, []) runs once.
Mount ==
  /\ session = "none"
  /\ session' = "live"
  /\ interval' = "active"
  /\ Issue(rpc("get_firmware_url", NoArgs, "setFirmwareURL", UrlCatch, Null))
  /\ UNCHANGED <<progress, firmwareURL, timerTask, elapsed, readers,
                 selections, failStreak, lastPoll>>
  /\ UNCHANGED <<dispatchVars, gatewayVars>>

\* 250 ms pass: the event loop queues a task for the interval.
TimerElapse ==
  /\ interval = "active"
  /\ ~timerTask
  /\ elapsed < MaxTicks
  /\ elapsed' = elapsed + 1
  /\ timerTask' = TRUE
  /\ UNCHANGED <<session, progress, firmwareURL, interval, readers,
                 selections, failStreak, lastPoll>>
  /\ UNCHANGED <<dispatchVars, gatewayVars, rpcVars>>

\* An interval whose cleanup does not stop a task that is already queued.
TimerListed_Ignored == interval # "none"

\* A queued timer task runs its callback only while the interval is still
\* in the list of active timers: clearInterval removes it.
TimerListed == interval = "active"

\* A callback that polls only while no earlier poll is outstanding.
intervalCallback_Guarded ==
  IF \E c \in inflight : c.op = "progress"
  THEN UNCHANGED rpcVars
  ELSE Issue(rpc("progress", NoArgs, "setProgress", PollCatch, Null))

\* The interval's callback: one "progress" invocation, unconditionally.
intervalCallback ==
  Issue(rpc("progress", NoArgs, "setProgress", PollCatch, Null))

\* A queued timer task of a listed interval runs the callback.
TimerFire ==
  /\ timerTask
  /\ TimerListed
  /\ timerTask' = FALSE
  /\ intervalCallback
  /\ UNCHANGED <<session, progress, firmwareURL, interval, elapsed, readers,
                 selections, failStreak, lastPoll>>
  /\ UNCHANGED <<dispatchVars, gatewayVars>>

\* A queued timer task of a cleared interval does nothing.
TimerDrop ==
  /\ timerTask
  /\ ~TimerListed
  /\ timerTask' = FALSE
  /\ UNCHANGED <<session, progress, firmwareURL, interval, elapsed, readers,
                 selections, failStreak, lastPoll>>
  /\ UNCHANGED <<dispatchVars, gatewayVars, rpcVars>>

\* The component unmounts: the effect's cleanup, clearInterval(interval).
Teardown ==
  /\ session = "live"
  /\ session' = "torn"
  /\ interval' = "cleared"
  /\ UNCHANGED <<progress, firmwareURL, timerTask, elapsed, readers,
                 selections, failStreak, lastPoll>>
  /\ UNCHANGED <<dispatchVars, gatewayVars, rpcVars>>

\* uploadFirmware(file): a new FileReader starts reading the file.
uploadFirmware(file) ==
  /\ session = "live"
  /\ Display.upload
  /\ selections < MaxSelections
  /\ selections' = selections + 1
  /\ readers' = readers \cup {[rid |-> selections + 1, file |-> file]}
  /\ UNCHANGED <<session, progress, firmwareURL, interval, timerTask, elapsed,
                 failStreak, lastPoll>>
  /\ UNCHANGED <<dispatchVars, gatewayVars, rpcVars>>

\* event.target.result at "loadend": the file's bytes after a read that
\* succeeded, null after a read that failed.
ReadResult(file, ok) == IF ok THEN Some(file) ELSE Null

\* Array.from(new Uint8Array(result)): a null result gives an empty array.
PayloadOf(result) == IF result = Null THEN <<>> ELSE result[1]

\* An upload whose failure is dropped like a poll's.
UploadCatch_Discards == "discard"

\* The handler the upload chains with .catch: addError.
UploadCatch == "addError"

\* The reader's "loadend" listener: it runs after a finished read, whether
\* the read succeeded or failed.
ReadLoadEnd(r, ok) ==
  /\ r \in readers
  /\ readers' = readers \ {r}
  /\ Issue(rpc("do_field_upgrade",
               [NoArgs EXCEPT !.data = Some(PayloadOf(ReadResult(r.file, ok)))],
               "none", UploadCatch, Some(r.file)))
  /\ UNCHANGED <<session, progress, firmwareURL, interval, timerTask, elapsed,
                 selections, failStreak, lastPoll>>
  /\ UNCHANGED <<dispatchVars, gatewayVars>>

NextUpgrade ==
  \/ Mount
  \/ TimerElapse
  \/ TimerFire
  \/ TimerDrop
  \/ Teardown
  \/ \E f \in Files : uploadFirmware(f)
  \/ \E r \in readers : \E ok \in BOOLEAN : ReadLoadEnd(r, ok)
  \/ \E c \in inflight : \E v \in Results(c.op) : RpcResolve(c, v)
  \/ \E c \in inflight : RpcReject(c)

SpecUpgrade == InitUpgrade /\ [][NextUpgrade]_vars

----------------------------------------------------------------------------
(* DeviceComponent, getFactory and renderDeviceType.  Display text is a    *)
(* TLA+ string; \o concatenates.                                           *)

\* A DeviceType value: a string tag, or an object with one key.
StrType(tag)      == [shape |-> "string", key |-> tag, value |-> ""]
ObjType(key, val) == [shape |-> "object", key |-> key, value |-> val]

DeviceTypes ==
  { StrType("RoboRIO"), StrType("Unknown"),
    ObjType("Grapple", "LaserCAN"), ObjType("Grapple", "FlexiCAN"),
    ObjType("Vendor", "Widget"), StrType("Other") }

\* The own keys of FACTORIES and the component each factory creates.
RegisteredClasses ==
  {"OldVersionDevice", "GrappleFirmwareUpgrade", "LaserCAN", "MitoCANdria",
   "FlexiCAN"}

FACTORIES ==
  [k \in RegisteredClasses |->
     CASE k = "OldVersionDevice"       -> "OldVersionDevice"
       [] k = "GrappleFirmwareUpgrade" -> "FirmwareUpdateComponent"
       [] k = "LaserCAN"               -> "LaserCanComponent"
       [] k = "MitoCANdria"            -> "MitocandriaComponent"
       [] k = "FlexiCAN"               -> "FlexiCanComponent"]

\* The device panels that embed GrappleDeviceHeaderComponent and so offer
\* "blink", "set_id", "set_name" and "commit_to_eeprom".
HeaderHandlers ==
  {"LaserCanComponent", "MitocandriaComponent", "FlexiCanComponent"}

\* FACTORIES is an object literal: a property read FACTORIES[k] that finds
\* no own key continues on Object.prototype.
ObjectPrototypeKeys == {"constructor", "toString", "valueOf", "__proto__"}

\* Class names that are neither registered nor on Object.prototype.
OtherClasses == {"", "lasercan", "LaserCAN2", "Unknown"}

DeviceClasses == RegisteredClasses \cup ObjectPrototypeKeys \cup OtherClasses

\* getFactory(device_class): FACTORIES[device_class].
getFactory(device_class) ==
  IF device_class \in RegisteredClasses
  THEN [kind |-> "own", name |-> device_class]
  ELSE IF device_class \in ObjectPrototypeKeys
  THEN [kind |-> "inherited", name |-> device_class]
  ELSE [kind |-> "undefined", name |-> ""]

\* factory(info, invoke) for a member of Object.prototype, called as a plain
\* function (this is undefined): Object(info) returns info, an object React
\* cannot render; toString gives its text for undefined; valueOf throws on
\* undefined; __proto__ reads Object.prototype itself, which is no function.
CallInherited(name) ==
  CASE name = "constructor" -> [kind |-> "object",  raised |-> FALSE, what |-> "info"]
    [] name = "toString"    -> [kind |-> "text",    raised |-> FALSE, what |-> "[object Undefined]"]
    [] name = "valueOf"     -> [kind |-> "nothing", raised |-> TRUE,  what |-> "TypeError"]
    [] name = "__proto__"   -> [kind |-> "nothing", raised |-> TRUE,  what |-> "TypeError"]

\* factory !== undefined ? factory(info, invoke) : <Bug specifics=... />
Dispatch(device_class) ==
  LET factory == getFactory(device_class) IN
  IF factory.kind = "undefined"
  THEN [kind |-> "Bug", raised |-> FALSE, what |-> device_class]
  ELSE IF factory.kind = "own"
  THEN [kind |-> "handler", raised |-> FALSE, what |-> FACTORIES[factory.name]]
  ELSE CallInherited(factory.name)

\* renderDeviceType(deviceType); the "in" operator throws on a string.
renderDeviceType(deviceType) ==
  IF deviceType = StrType("RoboRIO")
  THEN [raised |-> FALSE, label |-> "NI RoboRIO"]
  ELSE IF deviceType = StrType("Unknown")
  THEN [raised |-> FALSE, label |-> "Unknown Device"]
  ELSE IF deviceType.shape = "string"
  THEN [raised |-> TRUE, label |-> ""]
  ELSE IF deviceType.key = "Grapple"
  THEN [raised |-> FALSE, label |-> deviceType.value]
  ELSE [raised |-> FALSE, label |-> "Unknown Device"]

HexChars == <<"0","1","2","3","4","5","6","7","8","9","a","b","c","d","e","f">>

\* String(n) for a number n >= 0.
RECURSIVE ToDecimalString(_)
ToDecimalString(n) ==
  IF n < 10 THEN DigitChars[n + 1]
  ELSE ToDecimalString(n \div 10) \o DigitChars[(n % 10) + 1]

\* n.toString(16) for a number n >= 0.
RECURSIVE ToHexString(_)
ToHexString(n) ==
  IF n < 16 THEN HexChars[n + 1]
  ELSE ToHexString(n \div 16) \o HexChars[(n % 16) + 1]

\* The text chunks of the <h3> heading, for the label the type rendered to.
Heading(i, label) ==
  <<label>>
    \o (IF i.device_id # Null THEN <<"#" \o ToDecimalString(i.device_id[1])>>
        ELSE <<>>)
    \o (IF i.is_dfu THEN <<"FIRMWARE UPDATE">>
        ELSE IF i.name # Null THEN <<"(" \o i.name[1] \o ")">> ELSE <<>>)

\* The text chunks of the muted line under the heading; absent when neither
\* serial nor firmware version is known.
Subline(i) ==
  LET fw == IF i.firmware_version = Null THEN "undefined"
            ELSE i.firmware_version[1] IN
  IF i.serial = Null /\ i.firmware_version = Null THEN <<>>
  ELSE (IF i.serial # Null THEN <<"Serial: 0x" \o ToHexString(i.serial[1])>>
        ELSE <<>>)
       \o (IF i.firmware_version # Null /\ i.is_dfu
           THEN <<"Bootloader: " \o fw>> ELSE <<"Firmware: " \o fw>>)

DeviceInfos ==
  [device_type : DeviceTypes, device_id : {Null, Some(5)},
   name : {Null, Some("front")}, serial : {Null, Some(255)},
   firmware_version : {Null, Some("1.2.0")}, is_dfu : BOOLEAN]

NoRender == [raised |-> FALSE, heading |-> <<>>, subline |-> <<>>,
             body |-> [kind |-> "nothing", raised |-> FALSE, what |-> ""]]

\* DeviceComponent(props): the heading is evaluated first, then the muted
\* line, then the dispatched body; an exception ends the render.
DeviceComponent(p) ==
  LET t == renderDeviceType(p.info.device_type)
      b == Dispatch(p.device_class) IN
  IF t.raised THEN [NoRender EXCEPT !.raised = TRUE]
  ELSE [raised  |-> b.raised,
        heading |-> Heading(p.info, t.label),
        subline |-> Subline(p.info),
        body    |-> b]

InitDispatch ==
  /\ props \in [info : DeviceInfos, device_class : DeviceClasses]
  /\ rendered = Null
  /\ gatewayIdle
  /\ upgradeIdle
  /\ rpcIdle

\* The host renders the component with its props.
Render ==
  /\ rendered = Null
  /\ rendered' = Some(DeviceComponent(props))
  /\ UNCHANGED <<props, gatewayVars, upgradeVars, rpcVars>>

NextDispatch == Render

SpecDispatch == InitDispatch /\ [][NextDispatch]_vars

----------------------------------------------------------------------------
(* The claims.                                                              *)

AllCalls == inflight \cup {lastCall}

\* C1: changeName never issues "set_name" for a confirmed name longer than
\* 16 characters: every "set_name" invocation carries a name of at most 16
\* characters, the number of "set_name" invocations is the number of
\* confirmed names of at most 16 characters, and every confirmed longer name
\* added exactly one "Name is too long!" error.
C1_NoSetNameForLongName ==
  /\ \A c \in AllCalls : c.op = "set_name" => Len(c.args.name[1]) <= 16
  /\ issued["set_name"] = answers.nameOk
  /\ Cardinality({i \in 1..Len(toasts) : toasts[i] = <<"Name is too long!">>})
       = answers.nameLong

\* A name longer than 16 characters was confirmed and reported.
C1_Witness ==
  /\ answers.nameLong >= 1
  /\ toasts # <<>>
  /\ toasts[Len(toasts)] = <<"Name is too long!">>
  /\ issued["set_name"] = 0

\* C2: every "set_id" invocation carries an id in the closed range 0..61
\* (62 is rejected); stated for a dialog that refuses whatever lies outside
\* the constraint of the input control, the case most favourable to it.
C2_IdWithinZeroToSixtyOne ==
  \A c \in AllCalls :
    (c.op = "set_id" /\ rangeEnforced) => c.args.id[1] \in 0..61

\* C3: no "set_id" invocation is built from a confirmed input that is empty
\* or does not parse as a number.
C3_MalformedIdNotSent ==
  \A c \in AllCalls :
    c.op = "set_id" => (c.input[1] # <<>> /\ Number(c.input[1]) # Null)

\* C4: a failed "progress" poll changes neither the stored progress, the
\* advisory URL nor the display, reports no error, and leaves the poll timer
\* as it was; the timer of a live session is always active.
C4_PollFailureSwallowed ==
  /\ [](session = "live" => interval = "active")
  /\ [][failStreak' > failStreak =>
          /\ progress' = progress
          /\ firmwareURL' = firmwareURL
          /\ Display' = Display
          /\ toasts' = toasts
          /\ interval' = interval
          /\ timerTask' = timerTask
          /\ session' = session]_vars

\* Two polls in a row failed after progress 45 was stored.
C4_Witness ==
  /\ failStreak >= 2
  /\ progress = Some(45)
  /\ session = "live"
  /\ interval = "active"
  /\ toasts = <<>>

\* C5: once the session is torn down, no further "progress" invocation is
\* issued.
C5_NoPollAfterTeardown ==
  [][session = "torn" => issued'["progress"] = issued["progress"]]_vars

\* The session was torn down while a timer task was queued.
C5_Witness ==
  /\ session = "torn"
  /\ timerTask
  /\ interval = "cleared"

\* C6: every "do_field_upgrade" invocation carries exactly the bytes of the
\* selected file, whatever the outcome of the file read.
C6_PayloadIsFileBytes ==
  \A c \in AllCalls : c.op = "do_field_upgrade" => c.args.data = c.input

\* C7: dispatch returns the registered handler for each of the five
\* registered class names, and the diagnostic fallback, without raising, for
\* every other class name.
C7_DispatchTotal ==
  (rendered # Null /\ ~renderDeviceType(props.info.device_type).raised) =>
    LET b == rendered[1].body
        k == props.device_class IN
    /\ ~b.raised
    /\ k = "OldVersionDevice" =>
         (b.kind = "handler" /\ b.what = "OldVersionDevice")
    /\ k = "GrappleFirmwareUpgrade" =>
         (b.kind = "handler" /\ b.what = "FirmwareUpdateComponent")
    /\ k = "LaserCAN" => (b.kind = "handler" /\ b.what = "LaserCanComponent")
    /\ k = "MitoCANdria" =>
         (b.kind = "handler" /\ b.what = "MitocandriaComponent")
    /\ k = "FlexiCAN" => (b.kind = "handler" /\ b.what = "FlexiCanComponent")
    /\ k \notin {"OldVersionDevice", "GrappleFirmwareUpgrade", "LaserCAN",
                 "MitoCANdria", "FlexiCAN"}
         => (b.kind = "Bug" /\ b.what = k)

\* C8: start_dfu is called once for every affirmative answer to the upgrade
\* confirmation and never otherwise.
C8_StartDfuOnlyWhenConfirmed ==
  /\ startDfuCalls = answers.dfuYes
  /\ (~start_dfu => startDfuCalls = 0)

\* The operator declined once and confirmed once.
C8_Witness ==
  /\ answers.dfuNo = 1
  /\ answers.dfuYes = 1
  /\ startDfuCalls = 1

\* C9: after teardown no resolution changes the stored progress or the
\* advisory URL.
C9_NoWriteAfterTeardown ==
  [][session = "torn" =>
       (progress' = progress /\ firmwareURL' = firmwareURL)]_vars

\* C10 as claimed: in a live session a stored progress of 100 stays 100.
C10_HundredIsTerminal ==
  [][(session = "live" /\ session' = "live" /\ progress = Some(100))
       => progress' = Some(100)]_vars

\* A "progress" poll resolved successfully in this step.
PollResolved == lastPoll' # lastPoll /\ lastPoll'[1].ok

\* C10 as amended: a stored progress of 100 stays 100, with the display on
\* the progress indicator at 100, across every step except a successful
\* "progress" resolution, which replaces it with that poll's result.
C10_HundredUntilNextResult ==
  [][progress = Some(100) =>
       IF PollResolved THEN progress' = lastPoll'[1].value
       ELSE (progress' = Some(100) /\ Display' = Display /\ Display.bar)]_vars

\* The stored 100 outlived a failed poll.
C10_Witness ==
  /\ progress = Some(100)
  /\ failStreak >= 1
  /\ session = "live"
  /\ Display.now = Some(100)

\* How many reported errors are the failure of an invocation of o.
Reported(o) ==
  Cardinality({i \in 1..Len(toasts) : toasts[i] = <<"rpc failed", o>>})

\* C11: every failed "blink" or "commit_to_eeprom" invocation is reported to
\* the operator: for each of the two operations, the reported failures are
\* as many as the failed invocations.
C11_BlinkCommitFailureReported ==
  \A o \in {"blink", "commit_to_eeprom"} : Reported(o) = failed[o]

\* C12: for a descriptor whose is_dfu flag is set, whatever its type tag and
\* class name, the dispatched body is never a handler that offers "blink",
\* "set_id", "set_name" or "commit_to_eeprom".
C12_DfuOffersOnlyUpgrade ==
  (rendered # Null /\ props.info.is_dfu) =>
    ~(rendered[1].body.kind = "handler"
        /\ rendered[1].body.what \in HeaderHandlers)

C15_UploadHiddenOnceObserved ==
  session = "live" =>
    /\ progress = Null =>
         (Display.upload /\ ~Display.bar /\ (Display.link <=> firmwareURL # Null))
    /\ progress # Null => (Display.bar /\ ~Display.upload /\ ~Display.link)

\* C15 as amended: while the stored progress is absent or 0 the upload
\* control is shown (with the link if the URL is known); while it is a
\* non-zero number only the progress indicator is shown; what is shown
\* changes only when a "progress" poll resolves, and the upload control comes
\* back exactly when that poll's result is 0.
C15_DisplayFollowsStoredProgress ==
  /\ [](session = "live" =>
          /\ progress \in {Null, Some(0)} =>
               /\ Display.upload /\ ~Display.bar
               /\ Display.link <=> firmwareURL # Null
          /\ progress \notin {Null, Some(0)} =>
               (Display.bar /\ ~Display.upload /\ ~Display.link
                  /\ Display.now = progress))
  /\ [][Display'.upload # Display.upload =>
          /\ PollResolved
          /\ Display'.upload <=> lastPoll'[1].value = Some(0)]_vars

\* The indicator was shown for 45 and the next poll result, 0, brought the
\* upload control back.
C15_Witness ==
  /\ session = "live"
  /\ lastPoll # Null
  /\ lastPoll[1].ok
  /\ lastPoll[1].value = Some(0)
  /\ lastPoll[1].prev = Some([seq |-> 1, value |-> Some(45)])
  /\ progress = Some(0)
  /\ Display.upload
  /\ ~Display.bar

\* C16: the stored progress is the result of the "progress" poll that
\* resolved last, whichever poll was issued first: after a successful
\* resolution the stored value is that poll's result, also when a poll
\* issued later had resolved before it.
C16_LastResolutionWins ==
  (lastPoll # Null /\ lastPoll[1].ok) =>
    /\ progress = lastPoll[1].value
    /\ lastPoll[1].prev # Null => lastPoll[1].prev[1].seq # lastPoll[1].seq

\* Two polls were outstanding together; the second one issued resolved
\* first with 100, then the first one issued resolved with 45 and replaced it.
C16_Witness ==
  /\ lastPoll # Null
  /\ lastPoll[1].ok
  /\ lastPoll[1].seq = 1
  /\ lastPoll[1].value = Some(45)
  /\ lastPoll[1].prev = Some([seq |-> 2, value |-> Some(100)])
  /\ progress = Some(45)
  /\ \A c \in inflight : c.op # "progress"

\* C17: every failed "set_id" or "set_name" invocation is reported exactly
\* once; each confirmed dialog issues one invocation and nothing reissues
\* it; and the local descriptor (id, name) never changes, whether the
\* invocation fails or succeeds.
C17_MutationFailureReportedOnce ==
  /\ [](\A o \in {"set_id", "set_name"} : Reported(o) = failed[o])
  /\ [](/\ issued["set_id"] = answers.idOk + answers.idMalformed
        /\ issued["set_name"] = answers.nameOk)
  /\ [][info' = info]_vars

\* One "set_id" and one "set_name" invocation failed: two errors reported,
\* nothing outstanding, the descriptor as it was.
C17_Witness ==
  /\ failed["set_id"] = 1
  /\ failed["set_name"] = 1
  /\ issued["set_id"] = 1
  /\ issued["set_name"] = 1
  /\ inflight = {}
  /\ Len(toasts) = 2
  /\ info = [device_id |-> 5, name |-> <<"a">>]

\* C18: the step in which a "do_field_upgrade" invocation fails reports that
\* failure and changes nothing else: the stored progress, the advisory URL,
\* the display, the session, the poll timer and its queued task, the
\* outstanding polls and the number of invocations issued are as before.
C18_UploadFailureOnlyReported ==
  [][\A c \in inflight :
       (c.op = "do_field_upgrade" /\ RpcReject(c)) =>
         /\ toasts' = Append(toasts, <<"rpc failed", "do_field_upgrade">>)
         /\ progress' = progress
         /\ firmwareURL' = firmwareURL
         /\ Display' = Display
         /\ session' = session
         /\ interval' = interval
         /\ timerTask' = timerTask
         /\ elapsed' = elapsed
         /\ issued' = issued
         /\ inflight' = inflight \ {c}]_vars

\* The upload of a live session failed and was reported; the timer is still
\* active and a poll issued by it is outstanding.
C18_Witness ==
  /\ session = "live"
  /\ issued["do_field_upgrade"] = 1
  /\ \A c \in inflight : c.op # "do_field_upgrade"
  /\ toasts = << <<"rpc failed", "do_field_upgrade">> >>
  /\ interval = "active"
  /\ \E c \in inflight : c.op = "progress"
  /\ elapsed < MaxTicks

\* C19: in every state of a live session exactly one of the progress
\* indicator and the upload control is shown, decided by the stored progress
\* alone: the indicator exactly when it is a non-zero number, the upload
\* control exactly when it is absent or 0.
C19_ExactlyOneShown ==
  session = "live" =>
    /\ Display.bar # Display.upload
    /\ Display.bar <=> (progress # Null /\ progress[1] # 0)
    /\ Display.upload <=> (progress = Null \/ progress = Some(0))

\* A poll result of 0 followed a stored 100: the upload control is shown
\* again in place of the indicator.
C19_Witness ==
  /\ session = "live"
  /\ progress = Some(0)
  /\ lastPoll # Null
  /\ lastPoll[1].ok
  /\ lastPoll[1].prev # Null
  /\ lastPoll[1].prev[1].value = Some(100)
  /\ Display.upload
  /\ ~Display.bar

\* The "progress" invocations that are outstanding.
OutstandingPolls(calls) == {c \in calls : c.op = "progress"}

\* C20: a due timer task of a live session can always run, and the step in
\* which it runs issues exactly one new "progress" invocation and no other,
\* whatever is outstanding and whatever progress is stored.
C20_EveryTickPolls ==
  /\ []((session = "live" /\ timerTask) => ENABLED TimerFire)
  /\ [][(session = "live" /\ timerTask /\ ~timerTask') =>
          /\ issued' = [issued EXCEPT !["progress"] = @ + 1]
          /\ Cardinality(OutstandingPolls(inflight'))
               = Cardinality(OutstandingPolls(inflight)) + 1
          /\ inflight \subseteq inflight']_vars

\* The third tick issued a poll while the second poll and an upload were
\* outstanding and 100 was stored: two polls are outstanding together.
C20_Witness ==
  /\ session = "live"
  /\ progress = Some(100)
  /\ lastCall.op = "progress"
  /\ lastCall.seq = 3
  /\ Cardinality(OutstandingPolls(inflight)) = 2
  /\ \E c \in inflight : c.op = "do_field_upgrade"

============================================================================
